---- MODULE Spec2Model ----
(***************************************************************************)
(* Model of the `almost` crate: approximate equality of floating point     *)
(* values (src/src/imp.rs, src/src/lib.rs).                                *)
(*                                                                         *)
(* The comparison is written once, in the macro impl_equals!, over a float *)
(* type of BITS bits with SIGNIFICAND_SIZE stored significand bits.  The   *)
(* crate instantiates it for (32, 23) and (64, 52).  The model keeps the   *)
(* macro's parameters and instantiates it for an IEEE-754 binary format    *)
(* small enough that every bit pattern of both operands is enumerated.     *)
(* A float is its bit pattern (to_bits / from_bits are the reinterpreting  *)
(* casts of the code); arithmetic is IEEE-754 round-to-nearest-even,       *)
(* computed exactly on integers.                                           *)
(***************************************************************************)
EXTENDS Integers, Sequences, FiniteSets

\* total width of the float type, size_of::<$fp>() * 8
BITS == 6
\* stored significand bits, $SIGNIFICAND_SIZE
SIGNIFICAND_SIZE == 1

Pow2(n) == IF n <= 0 THEN 1 ELSE 2 ^ n

\* imp.rs:7-11, the derived layout constants
EXPONENT_SIZE == BITS - SIGNIFICAND_SIZE - 1
EXPONENT_MASK == (Pow2(EXPONENT_SIZE) - 1) * Pow2(SIGNIFICAND_SIZE)
EXPONENT_BIAS == Pow2(EXPONENT_SIZE - 1) - 1
SIGN_BIT == Pow2(BITS - 1)

\* every bit pattern of the width
Floats == 0 .. (Pow2(BITS) - 1)

(***************************************************************************)
(* Bit operations of the unsigned integer type $bits.                      *)
(***************************************************************************)
RECURSIVE BitAnd(_, _)
BitAnd(a, b) ==
    IF a = 0 \/ b = 0 THEN 0
    ELSE 2 * BitAnd(a \div 2, b \div 2) + (IF a % 2 = 1 /\ b % 2 = 1 THEN 1 ELSE 0)

RECURSIVE BitOr(_, _)
BitOr(a, b) ==
    IF a = 0 THEN b
    ELSE IF b = 0 THEN a
    ELSE 2 * BitOr(a \div 2, b \div 2) + (IF a % 2 = 1 \/ b % 2 = 1 THEN 1 ELSE 0)

BitNot(a) == (Pow2(BITS) - 1) - a

Shl(a, n) == (a * Pow2(n)) % Pow2(BITS)

RECURSIVE BitLen(_)
BitLen(n) == IF n = 0 THEN 0 ELSE 1 + BitLen(n \div 2)

(***************************************************************************)
(* IEEE-754 fields and classes of a bit pattern.                           *)
(***************************************************************************)
SignOf(f) == f \div SIGN_BIT
MagBits(f) == f % SIGN_BIT
ExpField(f) == MagBits(f) \div Pow2(SIGNIFICAND_SIZE)
Fraction(f) == f % Pow2(SIGNIFICAND_SIZE)

is_nan(f) == MagBits(f) > EXPONENT_MASK
is_infinite(f) == MagBits(f) = EXPONENT_MASK
is_finite(f) == MagBits(f) < EXPONENT_MASK

\* core::$fp constants
INFINITY == EXPONENT_MASK
NEG_INFINITY == SIGN_BIT + EXPONENT_MASK
MAX == EXPONENT_MASK - 1
MIN_POSITIVE == Pow2(SIGNIFICAND_SIZE)
EPSILON == (EXPONENT_BIAS - SIGNIFICAND_SIZE) * Pow2(SIGNIFICAND_SIZE)
ONE == EXPONENT_BIAS * Pow2(SIGNIFICAND_SIZE)
ZERO == 0
NAN == EXPONENT_MASK + Pow2(SIGNIFICAND_SIZE - 1)

\* A finite f has the value (-1)^SignOf(f) * Mant(f) * 2^Ex(f) units, one unit
\* being the smallest positive subnormal, 2^(1 - EXPONENT_BIAS - SIGNIFICAND_SIZE).
Mant(f) == IF ExpField(f) = 0 THEN Fraction(f) ELSE Pow2(SIGNIFICAND_SIZE) + Fraction(f)
Ex(f) == IF ExpField(f) = 0 THEN 0 ELSE ExpField(f) - 1
Units(f) == (IF SignOf(f) = 1 THEN -1 ELSE 1) * Mant(f) * Pow2(Ex(f))
\* exponent of one unit relative to 1.0
UnitShift == EXPONENT_BIAS - 1 + SIGNIFICAND_SIZE

\* numeric order of non-NaN patterns: -0 and +0 coincide
Key(f) == IF SignOf(f) = 1 THEN -MagBits(f) ELSE MagBits(f)

\* the comparison operators of $fp: false whenever an operand is NaN
lt(a, b) == ~is_nan(a) /\ ~is_nan(b) /\ Key(a) < Key(b)
gt(a, b) == lt(b, a)
ge(a, b) == ~is_nan(a) /\ ~is_nan(b) /\ Key(a) >= Key(b)
\* the infinities compared by magnitude alone, the sign forgotten
eq_magnitudes(a, b) == MagBits(a) = MagBits(b)
eq(a, b) == ~is_nan(a) /\ ~is_nan(b) /\ Key(a) = Key(b)

\* The magnitude pattern nearest (ties to even) to n * 2^k units, n >= 0;
\* INFINITY when that lies beyond the finite range.
RoundMag(n, k) ==
    IF n = 0 THEN 0
    ELSE LET p == BitLen(n) - 1 + k
             q == IF p > SIGNIFICAND_SIZE THEN p - SIGNIFICAND_SIZE ELSE 0
             sh == q - k
             Q == IF sh <= 0 THEN n * Pow2(-sh) ELSE n \div Pow2(sh)
             R == IF sh <= 0 THEN 0 ELSE n % Pow2(sh)
             half == IF sh <= 0 THEN 1 ELSE Pow2(sh - 1)
             up == R > half \/ (R = half /\ Q % 2 = 1)
             bits == q * Pow2(SIGNIFICAND_SIZE) + Q + (IF up THEN 1 ELSE 0)
         IN  IF bits >= EXPONENT_MASK THEN EXPONENT_MASK ELSE bits

WithSign(s, mag) == s * SIGN_BIT + mag

\* lhs - rhs of $fp
sub(a, b) ==
    IF is_nan(a) \/ is_nan(b) THEN NAN
    ELSE IF is_infinite(a) /\ is_infinite(b)
         THEN (IF SignOf(a) = SignOf(b) THEN NAN ELSE a)
    ELSE IF is_infinite(a) THEN a
    ELSE IF is_infinite(b) THEN WithSign(1 - SignOf(b), EXPONENT_MASK)
    ELSE LET d == Units(a) - Units(b)
         IN  IF d = 0
             THEN (IF SignOf(a) = 1 /\ SignOf(b) = 0 THEN SIGN_BIT ELSE 0)
             ELSE IF d < 0 THEN WithSign(1, RoundMag(-d, 0))
             ELSE WithSign(0, RoundMag(d, 0))

\* a * b of $fp
mul(a, b) ==
    LET s == (SignOf(a) + SignOf(b)) % 2
    IN  IF is_nan(a) \/ is_nan(b) THEN NAN
        ELSE IF is_infinite(a) \/ is_infinite(b)
             THEN (IF MagBits(a) = 0 \/ MagBits(b) = 0 THEN NAN
                   ELSE WithSign(s, EXPONENT_MASK))
        ELSE WithSign(s, RoundMag(Mant(a) * Mant(b), Ex(a) + Ex(b) - UnitShift))

(***************************************************************************)
(* State: one call of a public operation, in a debug or a release build.   *)
(***************************************************************************)
VARIABLES
    debug_assertions,   \* the build profile: debug_assert! is compiled in
    pc,                 \* "idle" before the call, "done" after it
    op,                 \* the public function called
    lhs, rhs, tol,      \* its arguments (zero / zero_with: lhs is the value)
    out                 \* its outcome

vars == <<debug_assertions, pc, op, lhs, rhs, tol, out>>

\* The outcome of a call: the value returned, or the panic that halted it,
\* and the frames entered below the trait method, in order, with their operands.
Return(b) == [halted |-> FALSE, msg |-> "", ret |-> b, calls |-> <<>>]
Panic(m) == [halted |-> TRUE, msg |-> m, ret |-> FALSE, calls |-> <<>>]
Enter(fn, l, r, res) ==
    [res EXCEPT !.calls = <<[fn |-> fn, lhs |-> l, rhs |-> r]>> \o res.calls]

\* lib.rs:227/231, F64_TOLERANCE / F32_TOLERANCE: EPSILON.sqrt() in the format.
\* EPSILON = 2^-SIGNIFICAND_SIZE; for an odd size the root is sqrt(2) * 2^-((size+1)/2),
\* its significand the integer nearest to sqrt(2) * 2^size.
SqrtTwoSignificand ==
    CHOOSE r \in Pow2(SIGNIFICAND_SIZE) .. Pow2(SIGNIFICAND_SIZE + 1) :
        /\ (2 * r - 1) * (2 * r - 1) < 8 * Pow2(2 * SIGNIFICAND_SIZE)
        /\ 8 * Pow2(2 * SIGNIFICAND_SIZE) < (2 * r + 1) * (2 * r + 1)
F_TOLERANCE ==
    IF SIGNIFICAND_SIZE % 2 = 0
    THEN (EXPONENT_BIAS - SIGNIFICAND_SIZE \div 2) * Pow2(SIGNIFICAND_SIZE)
    ELSE (EXPONENT_BIAS - (SIGNIFICAND_SIZE + 1) \div 2) * Pow2(SIGNIFICAND_SIZE)
         + (SqrtTwoSignificand - Pow2(SIGNIFICAND_SIZE))
\* lib.rs:236,238
MACHINE_EPSILON == EPSILON
DEFAULT_TOLERANCE == F_TOLERANCE

(***************************************************************************)
(* imp.rs                                                                  *)
(***************************************************************************)
\* the sign bit left in place
abs_keeps_sign(f) == f
\* imp.rs:15-17
abs(f) == BitAnd(f, BitNot(SIGN_BIT))

\* the magnitudes compared with INFINITY by `!=`, which NaN passes
both_not_infinity(left_mag, right_mag) == left_mag # INFINITY /\ right_mag # INFINITY
\* imp.rs:23, the test that routes a call to handle_not_finite
both_finite(left_mag, right_mag) == lt(left_mag, INFINITY) /\ lt(right_mag, INFINITY)

\* the scale taken from the left operand alone
left_mag_only(left_mag, right_mag) == left_mag
\* imp.rs:26-30
larger_mag(left_mag, right_mag) == IF gt(left_mag, right_mag) THEN left_mag ELSE right_mag

\* the scale not floored at MIN_POSITIVE
no_floor(scale) == scale
\* imp.rs:33-37
floor_scale(scale) == IF gt(scale, MIN_POSITIVE) THEN scale ELSE MIN_POSITIVE

\* imp.rs:38
abs_tol_of(t, scale) == mul(t, scale)

\* the comparison made with `<=`
within_or_at(l, r, abs_tol) ==
    LET d == abs(sub(l, r))
    IN  ~is_nan(d) /\ ~is_nan(abs_tol) /\ Key(d) <= Key(abs_tol)
\* imp.rs:39
within(l, r, abs_tol) == lt(abs(sub(l, r)), abs_tol)

\* imp.rs:26-39, the finite path
finite_path(l, r, t) ==
    within(l, r, abs_tol_of(t, floor_scale(larger_mag(abs(l), abs(r)))))

\* imp.rs:56
infinite_first(l, r) == IF is_infinite(l) THEN <<l, r>> ELSE <<r, l>>

\* the early return for a zero exponent field left out
exponent_never_zero(rbits) == FALSE
\* imp.rs:59
exponent_is_zero(rbits) == BitAnd(rbits, EXPONENT_MASK) = 0

\* imp.rs:65-67
max_float_binade_bits == BitAnd(MAX, EXPONENT_MASK)
\* MAX itself, its significand kept
new_lhs_is_max(l) == BitOr(MAX, BitAnd(l, SIGN_BIT))
new_lhs_of(l) == BitOr(max_float_binade_bits, BitAnd(l, SIGN_BIT))

\* the exponent of the factor one too low
rhs_rescale_quarter == Shl(EXPONENT_BIAS - 2, SIGNIFICAND_SIZE)
\* imp.rs:69
rhs_rescale == Shl(EXPONENT_BIAS - 1, SIGNIFICAND_SIZE)

\* imp.rs:70
new_rhs_of(r) == mul(r, rhs_rescale)

RECURSIVE eq_with_tol_impl(_, _, _)
RECURSIVE handle_not_finite(_, _, _)

\* imp.rs:45-74
handle_not_finite(l, r, t) ==
    Enter("handle_not_finite", l, r,
        IF is_nan(l) \/ is_nan(r) THEN Return(FALSE)
        ELSE IF is_infinite(l) /\ is_infinite(r) THEN Return(eq(l, r))
        ELSE LET p == infinite_first(l, r)
                 il == p[1]
                 fr == p[2]
             IN  IF debug_assertions /\ ~(is_finite(fr) /\ is_infinite(il))
                 THEN Panic("logic bug")
                 ELSE IF exponent_is_zero(fr) THEN Return(FALSE)
                 ELSE eq_with_tol_impl(new_lhs_of(il), new_rhs_of(fr), t))

\* imp.rs:20-41
eq_with_tol_impl(l, r, t) ==
    Enter("eq_with_tol_impl", l, r,
        IF ~both_finite(abs(l), abs(r))
        THEN handle_not_finite(l, r, t)
        ELSE Return(finite_path(l, r, t)))

(***************************************************************************)
(* lib.rs: the trait AlmostEqual and its implementation for the float type *)
(***************************************************************************)
\* the upper bound checked with `<=`, so that 1.0 is let through
almost_equals_with_le_one(self, r, t) ==
    IF debug_assertions /\ ~(lt(t, ONE) \/ eq(t, ONE))
    THEN Panic("Tolerance should not be greater than 1.0")
    ELSE IF debug_assertions /\ ~ge(t, MACHINE_EPSILON)
    THEN Panic("Tolerance should not be smaller than the machine epsilon")
    ELSE eq_with_tol_impl(self, r, t)
\* lib.rs:240-244 (f64), 260-264 (f32)
almost_equals_with(self, r, t) ==
    IF debug_assertions /\ ~lt(t, ONE)
    THEN Panic("Tolerance should not be greater than 1.0")
    ELSE IF debug_assertions /\ ~ge(t, MACHINE_EPSILON)
    THEN Panic("Tolerance should not be smaller than the machine epsilon")
    ELSE eq_with_tol_impl(self, r, t)

\* lib.rs:246-249 (f64), 266-269 (f32)
almost_zero_with(self, t) ==
    IF debug_assertions /\ ~gt(t, ZERO)
    THEN Panic("assertion failed: tol > 0.0")
    ELSE Return(lt(abs(self), t))

\* lib.rs:192-194
almost_zero(self) == almost_zero_with(self, DEFAULT_TOLERANCE)

\* lib.rs:203-205
almost_equals(self, r) == almost_equals_with(self, r, DEFAULT_TOLERANCE)

(***************************************************************************)
(* Inputs.  Operands range over every bit pattern.  The tolerance of       *)
(* equal_with ranges over every value of its documented domain             *)
(* [MACHINE_EPSILON, 1.0) and over values outside it on each side.         *)
(***************************************************************************)
ValidTolerance(t) == ge(t, MACHINE_EPSILON) /\ lt(t, ONE)
InvalidTolerances ==
    {ONE, MACHINE_EPSILON - 1, ZERO, SIGN_BIT + MACHINE_EPSILON, INFINITY, NAN}
Tolerances == {t \in Floats : ValidTolerance(t)} \cup InvalidTolerances

Init ==
    /\ debug_assertions \in BOOLEAN
    /\ pc = "idle"
    /\ op = "none"
    /\ lhs = ZERO
    /\ rhs = ZERO
    /\ tol = ZERO
    /\ out = Return(FALSE)

Finish(name, l, r, t, res) ==
    /\ pc' = "done"
    /\ op' = name
    /\ lhs' = l
    /\ rhs' = r
    /\ tol' = t
    /\ out' = res
    /\ UNCHANGED debug_assertions

\* lib.rs:85-87
equal ==
    /\ pc = "idle"
    /\ \E l \in Floats, r \in Floats :
        Finish("equal", l, r, DEFAULT_TOLERANCE, almost_equals(l, r))

\* lib.rs:110-112
zero ==
    /\ pc = "idle"
    /\ \E a \in Floats :
        Finish("zero", a, ZERO, DEFAULT_TOLERANCE, almost_zero(a))

\* lib.rs:142-144
zero_with ==
    /\ pc = "idle"
    /\ \E v \in Floats, t \in Floats :
        Finish("zero_with", v, ZERO, t, almost_zero_with(v, t))

\* lib.rs:163-165
equal_with ==
    /\ pc = "idle"
    /\ \E l \in Floats, r \in Floats, t \in Tolerances :
        Finish("equal_with", l, r, t, almost_equals_with(l, r, t))

Next == equal \/ zero \/ zero_with \/ equal_with

Spec == Init /\ [][Next]_vars

(***************************************************************************)
(* Properties.                                                             *)
(***************************************************************************)
Done == pc = "done"
IsEqual == op \in {"equal", "equal_with"}
Frames == [i \in DOMAIN out.calls |-> out.calls[i].fn]
FinitePathOnly == <<"eq_with_tol_impl">>
ResolvedInHandler == <<"eq_with_tol_impl", "handle_not_finite">>
Rescaled == <<"eq_with_tol_impl", "handle_not_finite", "eq_with_tol_impl">>

\* the operand that is infinite / finite when exactly one of the two is infinite
OneInfiniteOneFinite ==
    \/ is_infinite(lhs) /\ is_finite(rhs)
    \/ is_finite(lhs) /\ is_infinite(rhs)
InfiniteOperand == IF is_infinite(lhs) THEN lhs ELSE rhs
FiniteOperand == IF is_infinite(lhs) THEN rhs ELSE lhs
RescaleCase == OneInfiniteOneFinite /\ ExpField(FiniteOperand) # 0

\* |l - r| < t * max(|l|, |r|, MIN_POSITIVE) in the arithmetic of the format,
\* for finite l and r; magnitudes are ordered as their bit patterns are
Threshold(l, r, t) ==
    LET big == IF MagBits(l) > MagBits(r) THEN MagBits(l) ELSE MagBits(r)
    IN  mul(t, IF big > MIN_POSITIVE THEN big ELSE MIN_POSITIVE)
StrictlyWithin(l, r, t) ==
    LET d == MagBits(sub(l, r))
        th == Threshold(l, r, t)
    IN  ~is_nan(th) /\ Key(d) < Key(th)

\* 0.5 and the power of two that opens the largest finite binade, by value
Half == CHOOSE h \in Floats : SignOf(h) = 0 /\ is_finite(h) /\ 2 * Units(h) = Units(ONE)
TopBinade == CHOOSE f \in Floats :
    /\ SignOf(f) = 0 /\ is_finite(f) /\ Fraction(f) = 0
    /\ Units(f) <= Units(MAX) /\ 2 * Units(f) > Units(MAX)

\* C1: a call of equal / equal_with with a NaN operand on either side returns
\* false, whatever the other operand and the tolerance (a debug build halts on
\* a tolerance outside the domain instead of returning); the NaN is routed by
\* the magnitude test into handle_not_finite and resolved there, before any
\* rescaling and without a second call of eq_with_tol_impl.
C1_NaNAbsorption ==
    Done /\ IsEqual /\ (is_nan(lhs) \/ is_nan(rhs)) =>
        /\ out.halted <=> (debug_assertions /\ ~ValidTolerance(tol))
        /\ ~out.halted => out.ret = FALSE /\ Frames = ResolvedInHandler
C1_Witness ==
    Done /\ op = "equal" /\ is_nan(lhs) /\ is_nan(rhs) /\ lhs # rhs
         /\ ~out.halted /\ out.ret = FALSE

\* C2: for every pair of operands and every tolerance in [MACHINE_EPSILON, 1),
\* equal_with(x, y, tol) and equal_with(y, x, tol) have the same outcome.
C2_Symmetry ==
    Done /\ op = "equal_with" /\ ValidTolerance(tol) =>
        LET swapped == almost_equals_with(rhs, lhs, tol)
        IN  out.halted = swapped.halted /\ out.ret = swapped.ret
C2_Witness ==
    Done /\ op = "equal_with" /\ ValidTolerance(tol) /\ ~out.halted
         /\ is_finite(lhs) /\ is_infinite(rhs) /\ lhs # MAX
         /\ Frames = Rescaled /\ out.ret = TRUE

\* C3: for every finite x (either zero, subnormal, normal up to MAX) and every
\* tolerance in [MACHINE_EPSILON, 1), equal_with(x, x, tol) is true, and so is
\* equal(x, x); the threshold tol * max(|x|, MIN_POSITIVE) is strictly positive.
C3_Reflexivity ==
    Done /\ IsEqual /\ lhs = rhs /\ is_finite(lhs) /\ ValidTolerance(tol) =>
        /\ ~out.halted
        /\ out.ret = TRUE
        /\ Units(Threshold(lhs, lhs, tol)) > 0
C3_Witness ==
    Done /\ op = "equal_with" /\ lhs = rhs /\ tol = MACHINE_EPSILON
         /\ MagBits(lhs) # 0 /\ ExpField(lhs) = 0 /\ out.ret = TRUE

\* C4 as stated: with the default tolerance equal(MAX, +inf) returns false.
C4_Original ==
    Done /\ op = "equal" /\ lhs = MAX /\ rhs = INFINITY =>
        ~out.halted /\ out.ret = FALSE
\* C4 amended: equal(MAX, +inf) returns true with the default tolerance, as it
\* does with the generous tolerance 0.5.
C4_MaxAlmostInfinity ==
    /\ ValidTolerance(DEFAULT_TOLERANCE)
    /\ Done /\ lhs = MAX /\ rhs = INFINITY
         /\ (op = "equal" \/ (op = "equal_with" /\ tol = Half)) =>
            ~out.halted /\ out.ret = TRUE
C4_Witness ==
    Done /\ op = "equal" /\ lhs = MAX /\ rhs = INFINITY /\ tol = DEFAULT_TOLERANCE
         /\ Frames = Rescaled /\ out.ret = TRUE

\* C5: for every v and every tolerance tol > 0, zero_with(v, tol) is true iff
\* the magnitude of v (sign bit cleared) is strictly below tol: it is the same
\* for v and -v, false at |v| = tol, false for an infinite or NaN v; zero(v) is
\* zero_with(v, DEFAULT_TOLERANCE).
C5_ZeroAbsolute ==
    /\ Done /\ op \in {"zero", "zero_with"} /\ gt(tol, ZERO) =>
        /\ ~out.halted
        /\ out.ret = (MagBits(lhs) < MagBits(tol))
        /\ out.ret = almost_zero_with((lhs + SIGN_BIT) % Pow2(BITS), tol).ret
        /\ is_infinite(lhs) \/ is_nan(lhs) \/ MagBits(lhs) = MagBits(tol) => out.ret = FALSE
    /\ Done /\ op = "zero" => tol = DEFAULT_TOLERANCE /\ gt(tol, ZERO)
C5_Witness ==
    Done /\ op = "zero_with" /\ lhs = SIGN_BIT + EPSILON /\ tol = EPSILON
         /\ ~out.halted /\ out.ret = FALSE

\* C6: when both operands are infinite, equal_with returns true iff they are
\* the same signed infinity, for every tolerance, resolved in handle_not_finite
\* without rescaling and without a recursive call.
C6_InfiniteInfinite ==
    Done /\ IsEqual /\ is_infinite(lhs) /\ is_infinite(rhs) /\ ~out.halted =>
        /\ out.ret = (lhs = rhs)
        /\ Frames = ResolvedInHandler
C6_Witness ==
    Done /\ op = "equal_with" /\ lhs = INFINITY /\ rhs = NEG_INFINITY
         /\ ~ValidTolerance(tol) /\ ~out.halted /\ out.ret = FALSE

C8_FinitePath ==
    Done /\ IsEqual /\ is_finite(lhs) /\ is_finite(rhs) /\ ~out.halted =>
        /\ Frames = FinitePathOnly
        /\ out.ret = StrictlyWithin(lhs, rhs, tol)
        /\ MagBits(sub(lhs, rhs)) = Threshold(lhs, rhs, tol) => out.ret = FALSE
        /\ ExpField(lhs) = 0 /\ ExpField(rhs) = 0 =>
             out.ret = lt(MagBits(sub(lhs, rhs)), mul(tol, MIN_POSITIVE))
        /\ lt(tol, ONE) /\ ( \/ ExpField(lhs) # 0 /\ MagBits(rhs) = 0
                             \/ ExpField(rhs) # 0 /\ MagBits(lhs) = 0 ) =>
             out.ret = FALSE
C8_Witness ==
    Done /\ op = "equal_with" /\ is_finite(lhs) /\ is_finite(rhs) /\ ~out.halted
         /\ ValidTolerance(tol) /\ lhs # rhs
         /\ MagBits(sub(lhs, rhs)) = Threshold(lhs, rhs, tol) /\ out.ret = FALSE

\* C9 as stated: in the rescale case the infinite operand is replaced by MAX
\* with its sign, the finite one by itself times the factor, and the result is
\* the comparison of that pair.
C9_Original ==
    Done /\ IsEqual /\ RescaleCase /\ ~out.halted =>
        out.ret = StrictlyWithin(WithSign(SignOf(InfiniteOperand), MAX),
                                 mul(FiniteOperand, rhs_rescale), tol)
\* C9 amended: the infinite operand is replaced by the power of two that opens
\* the largest finite binade (the exponent field of MAX, significand zero)
\* with its sign, the finite one by itself times 0.5, and the result of the
\* call is the comparison of that pair under the same tolerance.
C9_Rescale ==
    Done /\ IsEqual /\ RescaleCase /\ ~out.halted =>
        LET new_lhs == WithSign(SignOf(InfiniteOperand), TopBinade)
            new_rhs == mul(FiniteOperand, Half)
        IN  /\ Frames = Rescaled
            /\ out.calls[3].lhs = new_lhs
            /\ out.calls[3].rhs = new_rhs
            /\ out.ret = StrictlyWithin(new_lhs, new_rhs, tol)
C9_Witness ==
    Done /\ op = "equal_with" /\ RescaleCase /\ ~out.halted
         /\ InfiniteOperand = NEG_INFINITY /\ lhs = WithSign(1, MAX)
         /\ tol = MACHINE_EPSILON /\ out.ret = TRUE

\* C10: the recursion depth is at most 1: handle_not_finite is entered at most
\* once and calls eq_with_tol_impl back only in the infinite/finite case with a
\* non-zero exponent field (a zero or subnormal operand returns false with no
\* such call), and the operands of that call are finite, so it takes the
\* finite path.
C10_BoundedRecursion ==
    Done /\ IsEqual /\ ~out.halted =>
        /\ Frames \in {FinitePathOnly, ResolvedInHandler, Rescaled}
        /\ Frames = Rescaled <=> RescaleCase
        /\ Frames = Rescaled =>
             is_finite(out.calls[3].lhs) /\ is_finite(out.calls[3].rhs)
        /\ OneInfiniteOneFinite /\ ExpField(FiniteOperand) = 0 =>
             Frames = ResolvedInHandler /\ out.ret = FALSE
C10_Witness ==
    Done /\ op = "equal_with" /\ Frames = Rescaled
         /\ FiniteOperand = MIN_POSITIVE
         /\ ExpField(out.calls[3].rhs) = 0 /\ MagBits(out.calls[3].rhs) # 0

====
